---- MODULE Spec2Model ----
(***************************************************************************)
(* Audit-stream ingestion of the MCP security scanner front end.           *)
(*                                                                         *)
(*   - RouteComponent (routes/report/$reportId/index.tsx): the report view *)
(*     with the SSE read loop startStreaming, the unmount cleanup and the  *)
(*     load / save effects on the persistent cache (localStorage).         *)
(*   - RunProgress (routes/runs/$runId): the effect that launches          *)
(*     performUrlScan, which inspects, reads the NDJSON audit stream,      *)
(*     writes the cache entry and schedules the navigation to the report.  *)
(*   - Report (two more builds of the report route, in part_000 and in     *)
(*     index.tsx): the load effect, extractScore, extractVulnerabilities,  *)
(*     the score and the reportData literal.                               *)
(*                                                                         *)
(* Text is a sequence of symbols.  "n" is the newline, "d" the SSE prefix  *)
(* "data: ", a kind symbol (I, A, C, U, T, N, R) the opening part of a JSON *)
(* object of that type and "}" its closing part, so that a record can be   *)
(* cut in the middle by a chunk boundary; " " is white space.              *)
(***************************************************************************)
EXTENDS Integers, Sequences, FiniteSets, TLC

\* ------------------------------------------------------------------ bounds
MaxRuns == 2        \* startStreaming calls modelled
MaxChunks == 10     \* chunks one startStreaming run reads
MaxBuf == 3         \* symbols the line buffer may hold between chunks
MaxScans == 2       \* times the run effect fires
MaxTexts == 2       \* assistant texts one scan accumulates
MaxStarts == 3      \* startStreaming calls modelled when only starts are studied
MaxChunkLen == 10   \* symbols in one chunk fed to the frame readers
MaxLines == 3       \* lines of an audit text
MaxScanTexts == 9   \* assistant texts of a scan that runs alone
MaxMatches == 11    \* callouts of an audit text made of callouts

Runs == 1..MaxRuns
Scans == 1..MaxScans
StartRuns == 1..MaxStarts
Ids == {"X"}

\* ------------------------------------------------------- program constants
ProgressInspect == 25
ProgressAudit == 75
ProgressComplete == 100
TickEvery == 10
TickCap == 90
ScanProgressInspected == 30
ScanProgressQuerying == 60
ScanProgressStep == 5
ScanProgressDone == 100

\* --------------------------------------------------------------- data
\* useState<any>(null) : the inspect data nobody has set yet
NoData == [id |-> "none", src |-> 0]
\* the data the backend serves for report id i (src 0), or that scan s
\* obtained for run id i (src s)
DataOf(i, s) == [id |-> i, src |-> s]
\* localStorage.getItem returns null
NoEntry == [kind |-> "none", inspect |-> NoData, audit |-> <<>>]
\* a stored string that JSON.parse rejects
Garbage == [kind |-> "garbage", inspect |-> NoData, audit |-> <<>>]
\* JSON.stringify({inspect, audit})
Entry(i, a) == [kind |-> "json", inspect |-> i, audit |-> a]

Min(a, b) == IF a < b THEN a ELSE b

\* ------------------------------------------------------------ frame reader
RECURSIVE SplitLines(_)
\* String.prototype.split("\n"): k newlines give k+1 pieces
SplitLines(s) ==
  IF \A i \in 1..Len(s) : s[i] # "n"
  THEN <<s>>
  ELSE LET k == CHOOSE i \in 1..Len(s) :
                  s[i] = "n" /\ \A j \in 1..(i-1) : s[j] # "n"
       IN <<SubSeq(s, 1, k-1)>> \o SplitLines(SubSeq(s, k+1, Len(s)))

\* lines.pop() || "" : the piece after the last newline
PopLine(lines) == lines[Len(lines)]
\* what is left in lines after the pop
Front(lines) == SubSeq(lines, 1, Len(lines) - 1)

JsonKinds == {"I", "A", "C", "U", "T", "N", "M", "W", "R"}
\* JSON.parse succeeds on the text: one object, opened and closed
JsonOk(t) == Len(t) = 2 /\ t[1] \in JsonKinds /\ t[2] = "}"
\* the type field of the parsed object
JsonType(t) ==
  CASE t[1] = "I" -> "inspect"
    [] t[1] = "A" -> "audit"
    [] t[1] = "C" -> "complete"
    [] t[1] = "T" -> "assistant"
    [] t[1] = "N" -> "assistant"
    [] t[1] = "M" -> "assistant"
    [] t[1] = "W" -> "assistant"
    [] t[1] = "R" -> "result"
    [] OTHER -> "unknown"

\* line.startsWith("data: ")
StartsWithData(line) == Len(line) >= 1 /\ line[1] = "d"
\* line.slice(6)
Slice6(line) == SubSeq(line, 2, Len(line))

\* line.trim() is a non-empty string
TrimNonEmpty(line) == \E i \in 1..Len(line) : line[i] # " "
\* JSON.parse skips white space around the value
StripWs(t) == SelectSeq(t, LAMBDA c : c # " ")
JsonParses(t) == JsonOk(StripWs(t))
ParsedType(t) == JsonType(StripWs(t))
\* the content list of an assistant record: T has one text item, N one item
\* that is not text, M an item that is not text and then a text item, W two
\* text items
Content(t) ==
  CASE StripWs(t)[1] = "T" -> << "text" >>
    [] StripWs(t)[1] = "N" -> << "tool_use" >>
    [] StripWs(t)[1] = "M" -> << "tool_use", "text" >>
    [] StripWs(t)[1] = "W" -> << "text", "text" >>
    [] OTHER -> << >>
\* msg.content[0].type === "text"
FirstItemIsText(t) == Content(t) # << >> /\ Content(t)[1] = "text"

\* ------------------------------------------------ what the backends send
\* chunks of the SSE audit stream (/api/audit/<id>)
SseChunks ==
  { <<"d", "I", "}", "n">>,
    <<"d", "A", "}", "n">>,
    <<"d", "C", "}", "n">>,
    <<"d", "C", "}", "n", "d", "A", "}", "n">>,
    <<"d", "A">>,
    <<"}", "n">>,
    <<"d", "A", "n", "d", "I", "}", "n">> }
\* chunks of the NDJSON audit stream (/api/v1/claude/query)
NdChunks ==
  { <<"T", "}", "n">>,
    <<"T">>,
    <<"}", "n">>,
    <<"R", "}", "n">>,
    <<"N", "}", "n">>,
    <<"T", "n", " ", "n", "T", "}", "n">> }

VARIABLES
  page,            \* the route that is loaded: "run", "route" (the
                   \* RouteComponent build of /report) or "report" (the
                   \* Report build of /report)
  id,              \* the route parameter (runId / reportId)
  cache,           \* localStorage: audit_<id> -> entry
  mounted,         \* the report component: "pre", "yes" or "gone"
  inspectData,     \* useState inspectData of the loaded component
  auditData,       \* useState auditData of the loaded component
  progress,        \* useState progress of the loaded component
  isStreaming,     \* useState isStreaming (RouteComponent)
  closureStreaming,\* isStreaming as captured by the current startStreaming
  ref,             \* abortControllerRef.current: 0 (null) or the run
  rpc,             \* startStreaming runs: "idle", "fetch", "read", "done"
  aborted,         \* abortController.signal.aborted of each run
  buffer,          \* let buffer of each run
  chunkCount,      \* let chunkCount of each run
  out,             \* what the step just taken let out: the toast it raised
                   \* ("none", "success", "error"), whether console.error
                   \* reported a frame that did not parse, and how a run left
                   \* startStreaming ("none", "eos", "noreader", "cancelled",
                   \* "failed")
  loadError,       \* an exception escaped the load effect
  spc,             \* performUrlScan: "idle", "inspect", "query", "read", "done", "failed"
  scanInspect,     \* const inspect of each scan
  auditText,       \* let auditText of each scan
  navTimer,        \* setTimeout(...location.href = /report/<runId>) pending
  feed             \* the frame readers fed one payload chunk by chunk

viewVars == <<inspectData, auditData, progress>>
routeVars == <<isStreaming, closureStreaming, ref, rpc, aborted, buffer, chunkCount>>
scanVars == <<spc, scanInspect, auditText, navTimer>>
vars == <<page, id, cache, mounted, inspectData, auditData, progress,
          isStreaming, closureStreaming, ref, rpc, aborted, buffer,
          chunkCount, out, loadError, spc, scanInspect, auditText, navTimer,
          feed>>

\* what localStorage holds for an id before any scan has stored an entry:
\* nothing, or a string that is not JSON
StoredEntries == {NoEntry, Garbage}

\* a step that raises no toast, logs no parse error and leaves no run
Quiet == [toast |-> "none", err |-> FALSE, exit |-> "none"]

\* no payload is being fed
NoFeed == [whole |-> <<>>, rest |-> <<>>, sseBuf |-> <<>>, sse |-> <<>>, nd |-> <<>>]

\* the state of a freshly constructed component
FreshView ==
  /\ inspectData = NoData /\ auditData = <<>> /\ progress = 0
  /\ isStreaming = FALSE /\ closureStreaming = FALSE /\ ref = 0
  /\ rpc = [r \in Runs |-> "idle"]
  /\ aborted = [r \in Runs |-> FALSE]
  /\ buffer = [r \in Runs |-> <<>>] /\ chunkCount = [r \in Runs |-> 0]
  /\ spc = [s \in Scans |-> "idle"]
  /\ scanInspect = [s \in Scans |-> NoData]
  /\ auditText = [s \in Scans |-> <<>>]
  /\ navTimer = FALSE

Init ==
  /\ page \in {"run", "route", "report"}
  /\ id \in Ids
  /\ cache \in [Ids -> StoredEntries]
  /\ mounted = "pre"
  /\ out = Quiet /\ loadError = FALSE
  /\ feed = NoFeed
  /\ FreshView

\* ============================================================ RouteComponent
\* a setter of an unmounted component changes nothing
SetState(old, new) == IF mounted = "yes" THEN new ELSE old

\* SseLine with JSON.parse outside the try: a frame that does not parse ends
\* the loop over the chunk
SseLineParseEscapes(st, line, i) ==
  IF ~StartsWithData(line) THEN st
  ELSE IF ~JsonParses(Slice6(line)) THEN [st EXCEPT !.err = TRUE, !.brk = TRUE]
  ELSE LET ty == ParsedType(Slice6(line)) IN
    CASE ty = "inspect" ->
           [st EXCEPT !.inspect = DataOf(i, 0), !.progress = ProgressInspect]
      [] ty = "audit" ->
           [st EXCEPT !.audit = <<DataOf(i, 0)>>, !.progress = ProgressAudit]
      [] ty = "complete" ->
           [st EXCEPT !.progress = ProgressComplete, !.streaming = FALSE,
                      !.toast = "success", !.brk = TRUE]
      [] OTHER -> st

\* the body of `for (const line of lines)` for one line: st is the state
\* the setters have produced so far, brk records the `break`
SseLine(st, line, i) ==
  IF ~StartsWithData(line) THEN st
  ELSE IF ~JsonParses(Slice6(line)) THEN [st EXCEPT !.err = TRUE]
  ELSE LET ty == ParsedType(Slice6(line)) IN
    CASE ty = "inspect" ->
           [st EXCEPT !.inspect = DataOf(i, 0), !.progress = ProgressInspect]
      [] ty = "audit" ->
           [st EXCEPT !.audit = <<DataOf(i, 0)>>, !.progress = ProgressAudit]
      [] ty = "complete" ->
           [st EXCEPT !.progress = ProgressComplete, !.streaming = FALSE,
                      !.toast = "success", !.brk = TRUE]
      [] OTHER -> st

RECURSIVE SseLines(_, _, _)
\* the for loop over the complete lines of one chunk
SseLines(st, lines, i) ==
  IF lines = <<>> \/ st.brk THEN st
  ELSE SseLines(SseLine(st, Head(lines), i), Tail(lines), i)

\* chunkCount++; if (chunkCount % 10 === 0) setProgress(min(prev + 1, 90))
Tick(p, count) ==
  IF count % TickEvery = 0 THEN Min(p + 1, TickCap) ELSE p

\* the save effect: writes the entry when both values are truthy
SaveEffect(c, i, insp, aud) ==
  IF insp # NoData /\ aud # <<>> THEN [c EXCEPT ![i] = Entry(insp, aud)] ELSE c

\* MountRoute with a load effect that reads the entry but sets no state
MountRouteNoLoad ==
  /\ page = "route" /\ mounted = "pre"
  /\ out' = Quiet
  /\ mounted' = "yes"
  /\ UNCHANGED <<page, id, cache, viewVars, routeVars, loadError, scanVars, feed>>

\* the load effect and the save effect of the first render
MountRoute ==
  /\ page = "route" /\ mounted = "pre"
  /\ out' = Quiet
  /\ mounted' = "yes"
  /\ LET stored == cache[id]
         insp == IF stored.kind = "json" THEN stored.inspect ELSE inspectData
         aud == IF stored.kind = "json" THEN stored.audit ELSE auditData
     IN /\ inspectData' = insp
        /\ auditData' = aud
        /\ cache' = IF stored.kind = "json" THEN SaveEffect(cache, id, insp, aud)
                    ELSE cache
  /\ UNCHANGED <<page, id, progress, routeVars, loadError, scanVars, feed>>

\* React renders again: startStreaming is recreated with the current isStreaming
Render ==
  /\ page = "route" /\ mounted = "yes"
  /\ out' = Quiet
  /\ closureStreaming # isStreaming
  /\ closureStreaming' = isStreaming
  /\ UNCHANGED <<page, id, cache, mounted, viewVars, loadError, scanVars, feed>>
  /\ UNCHANGED <<isStreaming, ref, rpc, aborted, buffer, chunkCount>>

\* controller.abort(): the run's pending await rejects, so nothing reads
\* its locals again
Abort(r) ==
  /\ aborted' = IF r # 0 THEN [aborted EXCEPT ![r] = TRUE] ELSE aborted
  /\ buffer' = IF r # 0 THEN [buffer EXCEPT ![r] = <<>>] ELSE buffer
  /\ chunkCount' = IF r # 0 THEN [chunkCount EXCEPT ![r] = 0] ELSE chunkCount

\* startStreaming up to its first await
StartStreaming(r) ==
  /\ page = "route" /\ mounted = "yes"
  /\ out' = Quiet
  /\ rpc[r] = "idle" /\ \A q \in 1..(r-1) : rpc[q] # "idle"
  /\ IF closureStreaming
     THEN UNCHANGED <<ref, aborted, isStreaming, progress, rpc, buffer, chunkCount>>
     ELSE /\ Abort(ref)
          /\ ref' = r
          /\ isStreaming' = TRUE
          /\ progress' = 0
          /\ rpc' = [rpc EXCEPT ![r] = "fetch"]
  /\ UNCHANGED <<page, id, cache, mounted, inspectData, auditData, loadError,
                 scanVars, feed>>
  /\ UNCHANGED <<closureStreaming>>

\* fetch resolves and the response has a body
FetchOk(r) ==
  /\ rpc[r] = "fetch" /\ ~aborted[r]
  /\ out' = Quiet
  /\ rpc' = [rpc EXCEPT ![r] = "read"]
  /\ buffer' = [buffer EXCEPT ![r] = <<>>]
  /\ chunkCount' = [chunkCount EXCEPT ![r] = 0]
  /\ UNCHANGED <<page, id, cache, mounted, viewVars, loadError, scanVars, feed>>
  /\ UNCHANGED <<isStreaming, closureStreaming, ref, aborted>>

\* the function returns or throws: its locals are gone, finally clears the ref
Leave(r) ==
  /\ rpc' = [rpc EXCEPT ![r] = "done"]
  /\ buffer' = [buffer EXCEPT ![r] = <<>>]
  /\ chunkCount' = [chunkCount EXCEPT ![r] = 0]
  /\ ref' = 0

\* fetch resolves without a body: if (!reader) return; then finally
NoReader(r) ==
  /\ rpc[r] = "fetch" /\ ~aborted[r]
  /\ Leave(r)
  /\ out' = [Quiet EXCEPT !.exit = "noreader"]
  /\ UNCHANGED <<page, id, cache, mounted, viewVars, loadError, scanVars, feed>>
  /\ UNCHANGED <<isStreaming, closureStreaming, aborted>>

\* reader.read() yields a chunk: one pass of the while loop
ReadChunk(r, c) ==
  /\ rpc[r] = "read" /\ ~aborted[r]
  /\ chunkCount[r] < MaxChunks
  /\ LET lines == SplitLines(buffer[r] \o c)
         st0 == [inspect |-> inspectData, audit |-> auditData,
                 progress |-> progress, streaming |-> isStreaming,
                 toast |-> "none", err |-> FALSE, brk |-> FALSE]
         st == SseLines(st0, Front(lines), id)
         p == Tick(st.progress, chunkCount[r] + 1)
     IN /\ Len(PopLine(lines)) <= MaxBuf
        /\ buffer' = [buffer EXCEPT ![r] = PopLine(lines)]
        /\ chunkCount' = [chunkCount EXCEPT ![r] = chunkCount[r] + 1]
        /\ inspectData' = SetState(inspectData, st.inspect)
        /\ auditData' = SetState(auditData, st.audit)
        /\ progress' = SetState(progress, p)
        /\ isStreaming' = SetState(isStreaming, st.streaming)
        /\ out' = [toast |-> st.toast, err |-> st.err, exit |-> "none"]
        /\ cache' = IF mounted = "yes" /\ <<st.inspect, st.audit>> # <<inspectData, auditData>>
                    THEN SaveEffect(cache, id, st.inspect, st.audit)
                    ELSE cache
  /\ UNCHANGED <<page, id, mounted, loadError, scanVars, feed>>
  /\ UNCHANGED <<closureStreaming, ref, rpc, aborted>>

\* reader.read() yields done: break, then finally
EndOfStream(r) ==
  /\ rpc[r] = "read" /\ ~aborted[r]
  /\ Leave(r)
  /\ out' = [Quiet EXCEPT !.exit = "eos"]
  /\ UNCHANGED <<page, id, cache, mounted, viewVars, loadError, scanVars, feed>>
  /\ UNCHANGED <<isStreaming, closureStreaming, aborted>>

\* Catch without the AbortError test: every rejection raises the notice
CatchAlwaysNotifies(r, isAbortError) ==
  /\ out' = [toast |-> "error", err |-> FALSE,
             exit |-> IF isAbortError THEN "cancelled" ELSE "failed"]
  /\ isStreaming' = SetState(isStreaming, FALSE)

\* Catch with setIsStreaming(false) only on the AbortError path
CatchKeepsStreaming(r, isAbortError) ==
  /\ out' = [toast |-> IF isAbortError THEN "none" ELSE "error", err |-> FALSE,
             exit |-> IF isAbortError THEN "cancelled" ELSE "failed"]
  /\ isStreaming' = IF isAbortError THEN SetState(isStreaming, FALSE) ELSE isStreaming

\* the catch block, then finally
Catch(r, isAbortError) ==
  /\ out' = [toast |-> IF isAbortError THEN "none" ELSE "error", err |-> FALSE,
             exit |-> IF isAbortError THEN "cancelled" ELSE "failed"]
  /\ isStreaming' = SetState(isStreaming, FALSE)

\* the awaited fetch or read rejects with AbortError: catch, then finally
Cancelled(r) ==
  /\ rpc[r] \in {"fetch", "read"} /\ aborted[r]
  /\ Catch(r, TRUE)
  /\ Leave(r)
  /\ UNCHANGED <<page, id, cache, mounted, viewVars, loadError, scanVars, feed>>
  /\ UNCHANGED <<closureStreaming, aborted>>

\* the awaited fetch or read rejects with another error: catch, then finally
TransportError(r) ==
  /\ rpc[r] \in {"fetch", "read"} /\ ~aborted[r]
  /\ Catch(r, FALSE)
  /\ Leave(r)
  /\ UNCHANGED <<page, id, cache, mounted, viewVars, loadError, scanVars, feed>>
  /\ UNCHANGED <<closureStreaming, aborted>>

\* the cleanup of the unmount effect
Unmount ==
  /\ page = "route" /\ mounted = "yes"
  /\ out' = Quiet
  /\ mounted' = "gone"
  /\ Abort(ref)
  /\ ref' = 0
  /\ UNCHANGED <<page, id, cache, viewVars, loadError, scanVars, feed>>
  /\ UNCHANGED <<isStreaming, closureStreaming, rpc>>

\* ============================================== RunProgress / performUrlScan
\* the body of `for (const line of lines)` for one line: st.text is the
\* scan's auditText, st.data the shared auditData list
NdLine(st, line, txt) ==
  IF ~TrimNonEmpty(line) THEN st
  ELSE IF ~JsonParses(line) THEN [st EXCEPT !.err = TRUE]
  ELSE IF ParsedType(line) = "assistant" /\ FirstItemIsText(line)
       THEN [st EXCEPT !.text = Append(st.text, txt),
                       !.data = Append(st.data, txt),
                       !.progress = Min(st.progress + ScanProgressStep, ScanProgressDone)]
       ELSE st

RECURSIVE NdLines(_, _, _)
\* the for loop over the lines of one chunk
NdLines(st, lines, txt) ==
  IF lines = <<>> THEN st
  ELSE NdLines(NdLine(st, Head(lines), txt), Tail(lines), txt)

\* the effect runs: performUrlScan() up to the inspect request
EffectFire(s) ==
  /\ page = "run"
  /\ out' = Quiet
  /\ spc[s] = "idle" /\ \A q \in 1..(s-1) : spc[q] # "idle"
  /\ spc' = [spc EXCEPT ![s] = "inspect"]
  /\ UNCHANGED <<page, id, cache, mounted, viewVars, routeVars, loadError,
                 feed, scanInspect, auditText, navTimer>>

\* the inspect request succeeds; the audit request is sent
InspectOk(s) ==
  /\ page = "run" /\ spc[s] = "inspect"
  /\ out' = Quiet
  /\ scanInspect' = [scanInspect EXCEPT ![s] = DataOf(id, s)]
  /\ inspectData' = DataOf(id, s)
  /\ progress' = ScanProgressInspected
  /\ spc' = [spc EXCEPT ![s] = "query"]
  /\ UNCHANGED <<page, id, cache, mounted, auditData, routeVars, loadError,
                 feed, auditText, navTimer>>

\* the audit request succeeds: the reader is taken, auditText = ""
QueryOk(s) ==
  /\ page = "run" /\ spc[s] = "query"
  /\ out' = Quiet
  /\ progress' = ScanProgressQuerying
  /\ auditText' = [auditText EXCEPT ![s] = <<>>]
  /\ spc' = [spc EXCEPT ![s] = "read"]
  /\ UNCHANGED <<page, id, cache, mounted, inspectData, auditData, routeVars,
                 loadError, feed, scanInspect, navTimer>>

\* reader.read() yields a chunk: one pass of the while loop
ScanReadUpTo(s, c, max) ==
  /\ page = "run" /\ spc[s] = "read"
  /\ LET st0 == [text |-> auditText[s], data |-> auditData,
                 progress |-> progress, err |-> FALSE]
         st == NdLines(st0, SplitLines(c), DataOf(id, s))
     IN /\ Len(st.text) <= max
        /\ auditText' = [auditText EXCEPT ![s] = st.text]
        /\ auditData' = st.data
        /\ progress' = st.progress
        /\ out' = [Quiet EXCEPT !.err = st.err]
  /\ UNCHANGED <<page, id, cache, mounted, inspectData, routeVars, loadError,
                 feed, spc, scanInspect, navTimer>>

ScanRead(s, c) == ScanReadUpTo(s, c, MaxTexts)

\* performUrlScan returns or its catch has run: its locals are gone
ScanLeave(s, how) ==
  /\ spc' = [spc EXCEPT ![s] = how]
  /\ scanInspect' = [scanInspect EXCEPT ![s] = NoData]
  /\ auditText' = [auditText EXCEPT ![s] = <<>>]

\* reader.read() yields done: the entry is stored, the navigation scheduled
ScanDone(s) ==
  /\ page = "run" /\ spc[s] = "read"
  /\ out' = Quiet
  /\ progress' = ScanProgressDone
  /\ cache' = [cache EXCEPT ![id] = Entry(scanInspect[s], auditText[s])]
  /\ navTimer' = TRUE
  /\ ScanLeave(s, "done")
  /\ UNCHANGED <<page, id, mounted, inspectData, auditData, routeVars, loadError,
                 feed>>

\* ScanFail with a catch that stores what the scan holds
ScanFailStores(s) ==
  /\ page = "run" /\ spc[s] \in {"inspect", "query", "read"}
  /\ out' = [Quiet EXCEPT !.toast = "error"]
  /\ cache' = [cache EXCEPT ![id] = Entry(scanInspect[s], auditText[s])]
  /\ ScanLeave(s, "failed")
  /\ UNCHANGED <<page, id, mounted, viewVars, routeVars, loadError,
                 feed, navTimer>>

\* a request fails or answers not ok, or a read rejects: the catch
ScanFail(s) ==
  /\ page = "run" /\ spc[s] \in {"inspect", "query", "read"}
  /\ out' = [Quiet EXCEPT !.toast = "error"]
  /\ ScanLeave(s, "failed")
  /\ UNCHANGED <<page, id, cache, mounted, viewVars, routeVars, loadError,
                 feed, navTimer>>

\* the timer fires: window.location.href = /report/<runId> unloads the page
\* and loads the report route, in the build that is deployed
Navigate(to) ==
  /\ page = "run" /\ navTimer
  /\ out' = Quiet
  /\ page' = to
  /\ inspectData' = NoData /\ auditData' = <<>> /\ progress' = 0
  /\ spc' = [s \in Scans |-> "idle"]
  /\ scanInspect' = [s \in Scans |-> NoData]
  /\ auditText' = [s \in Scans |-> <<>>]
  /\ navTimer' = FALSE
  /\ UNCHANGED <<id, cache, mounted, routeVars, loadError, feed>>

\* ==================================================================== Report
\* MountReport with a load effect that sets the audit data only
MountReportAuditOnly ==
  /\ page = "report" /\ mounted = "pre"
  /\ out' = Quiet
  /\ mounted' = "yes"
  /\ LET stored == cache[id]
     IN /\ loadError' = (stored.kind = "garbage")
        /\ auditData' = IF stored.kind = "json" THEN stored.audit ELSE auditData
  /\ UNCHANGED <<page, id, cache, inspectData, progress, routeVars, scanVars, feed>>

\* the load effect of the Report builds (part_000 and index.tsx): JSON.parse
\* outside any try
MountReport ==
  /\ page = "report" /\ mounted = "pre"
  /\ out' = Quiet
  /\ mounted' = "yes"
  /\ LET stored == cache[id]
     IN /\ loadError' = (stored.kind = "garbage")
        /\ inspectData' = IF stored.kind = "json" THEN stored.inspect ELSE inspectData
        /\ auditData' = IF stored.kind = "json" THEN stored.audit ELSE auditData
  /\ UNCHANGED <<page, id, cache, progress, routeVars, scanVars, feed>>

Next ==
  \/ MountRoute
  \/ Render
  \/ \E r \in Runs : StartStreaming(r)
  \/ \E r \in Runs : FetchOk(r)
  \/ \E r \in Runs : NoReader(r)
  \/ \E r \in Runs, c \in SseChunks : ReadChunk(r, c)
  \/ \E r \in Runs : EndOfStream(r)
  \/ \E r \in Runs : Cancelled(r)
  \/ \E r \in Runs : TransportError(r)
  \/ Unmount
  \/ \E s \in Scans : EffectFire(s)
  \/ \E s \in Scans : InspectOk(s)
  \/ \E s \in Scans : QueryOk(s)
  \/ \E s \in Scans, c \in NdChunks : ScanRead(s, c)
  \/ \E s \in Scans : ScanDone(s)
  \/ \E s \in Scans : ScanFail(s)
  \/ \E to \in {"route", "report"} : Navigate(to)
  \/ MountReport

Spec == Init /\ [][Next]_vars

\* ------------------------------------------- the report view, three starts
InitStarts ==
  /\ page = "route"
  /\ id \in Ids
  /\ cache = [i \in Ids |-> NoEntry]
  /\ mounted = "pre"
  /\ out = Quiet /\ loadError = FALSE
  /\ feed = NoFeed
  /\ inspectData = NoData /\ auditData = <<>> /\ progress = 0
  /\ isStreaming = FALSE /\ closureStreaming = FALSE /\ ref = 0
  /\ rpc = [r \in StartRuns |-> "idle"]
  /\ aborted = [r \in StartRuns |-> FALSE]
  /\ buffer = [r \in StartRuns |-> <<>>]
  /\ chunkCount = [r \in StartRuns |-> 0]
  /\ spc = [s \in Scans |-> "idle"]
  /\ scanInspect = [s \in Scans |-> NoData]
  /\ auditText = [s \in Scans |-> <<>>]
  /\ navTimer = FALSE

NextStarts ==
  \/ MountRoute
  \/ Render
  \/ \E r \in StartRuns : StartStreaming(r)
  \/ \E r \in StartRuns : FetchOk(r)
  \/ \E r \in StartRuns : NoReader(r)
  \/ \E r \in StartRuns, c \in SseChunks : ReadChunk(r, c)
  \/ \E r \in StartRuns : EndOfStream(r)
  \/ \E r \in StartRuns : Cancelled(r)
  \/ \E r \in StartRuns : TransportError(r)
  \/ Unmount

SpecStarts == InitStarts /\ [][NextStarts]_vars

\* ------------------------- the report view, a stream whose last line is open
\* chunks of a stream that can close after a record with no line end
TailChunks ==
  { <<"d", "I", "}", "n">>,
    <<"d", "A", "}">>,
    <<"d", "C", "}">>,
    <<"d", "A">>,
    <<"n">> }

TailRuns == {1}

InitTail ==
  /\ page = "route"
  /\ id \in Ids
  /\ cache = [i \in Ids |-> NoEntry]
  /\ mounted = "pre"
  /\ out = Quiet /\ loadError = FALSE
  /\ feed = NoFeed
  /\ inspectData = NoData /\ auditData = <<>> /\ progress = 0
  /\ isStreaming = FALSE /\ closureStreaming = FALSE /\ ref = 0
  /\ rpc = [r \in TailRuns |-> "idle"]
  /\ aborted = [r \in TailRuns |-> FALSE]
  /\ buffer = [r \in TailRuns |-> <<>>]
  /\ chunkCount = [r \in TailRuns |-> 0]
  /\ spc = [s \in Scans |-> "idle"]
  /\ scanInspect = [s \in Scans |-> NoData]
  /\ auditText = [s \in Scans |-> <<>>]
  /\ navTimer = FALSE

NextTail ==
  \/ MountRoute
  \/ Render
  \/ \E r \in TailRuns : StartStreaming(r)
  \/ \E r \in TailRuns : FetchOk(r)
  \/ \E r \in TailRuns, c \in TailChunks : ReadChunk(r, c)
  \/ \E r \in TailRuns : EndOfStream(r)
  \/ \E r \in TailRuns : Cancelled(r)
  \/ \E r \in TailRuns : TransportError(r)
  \/ Unmount

SpecTail == InitTail /\ [][NextTail]_vars

\* ------------------------------------------------- one scan that runs alone
\* chunks of an audit stream whose assistant records hold one or two items
ScanChunks ==
  { <<"T", "}", "n">>,
    <<"N", "}", "n">>,
    <<"M", "}", "n">>,
    <<"W", "}", "n">>,
    <<"T", "}", "n", "W", "}", "n">>,
    <<"R", "}", "n">>,
    <<"T", "n">> }

\* the entry an earlier scan of the id has stored
EarlierEntry == Entry(DataOf("X", 0), << DataOf("X", 0) >>)

InitScan ==
  /\ page = "run"
  /\ id \in Ids
  /\ cache \in [Ids -> StoredEntries \cup {EarlierEntry}]
  /\ mounted = "pre"
  /\ out = Quiet /\ loadError = FALSE
  /\ feed = NoFeed
  /\ FreshView

NextScan ==
  \/ EffectFire(1)
  \/ InspectOk(1)
  \/ QueryOk(1)
  \/ \E c \in ScanChunks : ScanReadUpTo(1, c, MaxScanTexts)
  \/ ScanDone(1)
  \/ ScanFail(1)
  \/ \E to \in {"route", "report"} : Navigate(to)

SpecScan == InitScan /\ [][NextScan]_vars

\* ------------------------------------- the frame readers fed chunk by chunk
\* the frames the SSE reader hands to JSON.parse for these complete lines
SseFrames(lines) ==
  LET data == SelectSeq(lines, StartsWithData)
  IN [k \in 1..Len(data) |-> Slice6(data[k])]
\* the frames the NDJSON readers hand to JSON.parse for these lines
NdFrames(lines) == SelectSeq(lines, TrimNonEmpty)

Payloads ==
  { <<"d", "I", "}", "n", "d", "A", "}", "n">>,
    <<"T", "}", "n", "T", "}", "n">>,
    <<"T", "}", "n", " ", "n", "R", "}", "n">>,
    <<"d", "A", "}", "n", "x", "n", "d", "C", "}", "n">> }

InitFrames ==
  /\ feed \in { [whole |-> w, rest |-> w, sseBuf |-> <<>>, sse |-> <<>>, nd |-> <<>>]
                : w \in Payloads }
  /\ page = "run"
  /\ id \in Ids
  /\ cache = [i \in Ids |-> NoEntry]
  /\ mounted = "pre"
  /\ out = Quiet /\ loadError = FALSE
  /\ FreshView

\* one reader.read() of each reader: the next n symbols arrive as a chunk
Feed(n) ==
  /\ n \in 1..Len(feed.rest)
  /\ LET c == SubSeq(feed.rest, 1, n)
         lines == SplitLines(feed.sseBuf \o c)
     IN feed' = [feed EXCEPT
                   !.rest = SubSeq(feed.rest, n + 1, Len(feed.rest)),
                   !.sseBuf = PopLine(lines),
                   !.sse = feed.sse \o SseFrames(Front(lines)),
                   !.nd = feed.nd \o NdFrames(SplitLines(c))]
  /\ UNCHANGED <<page, id, cache, mounted, viewVars, routeVars, out, loadError,
                 scanVars>>

NextFrames == \E n \in 1..MaxChunkLen : Feed(n)

SpecFrames == InitFrames /\ [][NextFrames]_vars

\* ------------------------------------------------- the report of an audit text
\* An audit text is the sequence of its lines.  performUrlScan ends every
\* assistant text with "\n" and join("\n") puts one between the elements of a
\* list, so both forms of the stored audit value give the same lines.  A line
\* is one lexical item, [k, a, n]:
\*   k = "plain"    `No issues were found`
\*   k = "score"    a score phrase holding the number n, of the form a:
\*       "p1"  `security score of <n>/100`      "p3"  `**Risk Score:** <n>/100`
\*       "p2"  `risk score of <n>/100`          "p4"  `<n>/100 is the security score`
\*       "p5"  `<n>/100 is the risk score`      "p6"  `score: <n>/100`
\*       "p7"  `(score: <n>/100)`
\*   k = "callout"  an inline callout of the form a:
\*       "k1"  `vulnerability: **Tool Poisoning** (TPA attack)`
\*       "k2"  `**SQL Injection** vulnerability`
\*       "k3"  `critical vulnerability: exposed shell`
\*       "k4"  `SAFE-T1001 (tool poisoning)`
\*       "k5"  `**SAFE-T1001: Tool Poisoning Attack**`
\*       "k6"  `#### 1. **Tool Poisoning** (TPA)`
\*       "k7"  `**Found SAFE-T1102 here**`
\*   k = "array"    `"vulnerabilities": [<body>]` with the body a:
\*       "empty"  nothing                "ws"   one blank
\*       "bad"    `{"name": oops}`       "noname"  `{"type": "high"}`
\*       "mixed"  a medium entry and a low entry
\*       "critical", "high", "medium", "low"  n entries of that type, each
\*                `{"name": "Weak Auth - AUTH", "type": <a>, "cause": "c"}`
Line(k, a, n) == [k |-> k, a |-> a, n |-> n]

Plain == Line("plain", "", 0)

ScoreLines ==
  { Line("score", "p1", 150), Line("score", "p3", 0),
    Line("score", "p6", 100), Line("score", "p7", 40) }

CalloutLines == { Line("callout", a, 0) : a \in {"k1", "k2", "k5"} }

ArrayLines ==
  { Line("array", a, 0) : a \in {"empty", "ws", "bad", "noname", "mixed"} }
  \cup { Line("array", "critical", n) : n \in 1..3 }
  \cup { Line("array", "high", 2), Line("array", "medium", 4),
         Line("array", "low", 3) }

Lines == {Plain} \cup ScoreLines \cup CalloutLines \cup ArrayLines

\* the sequences over S of length at most n
SeqUpTo(S, n) == UNION { [1..m -> S] : m \in 0..n }

Texts == SeqUpTo(Lines, MaxLines)

\* a string value: the literal prefix pre, then the text s, then the number n
\* when n >= 0 (the template literals `audit-${n}`, `VULN-${n}` and
\* `Server: ${s}`), cut to its first `cut` characters when cut > 0 and
\* followed by "..." when dots
Str(s) == [pre |-> "", s |-> s, n |-> -1, cut |-> 0, dots |-> FALSE]
Numbered(pre, n) == [pre |-> pre, s |-> "", n |-> n, cut |-> 0, dots |-> FALSE]
Prefixed(pre, s) == [pre |-> pre, s |-> s, n |-> -1, cut |-> 0, dots |-> FALSE]

\* the number of characters of the strings that tags and descriptions are
\* made of
Chars(s) ==
  CASE s = "" -> 0
    [] s = "Tool Poisoning" -> 14
    [] s = "TPA" -> 3
    [] s = "SQL Injection" -> 13
    [] s = "exposed shell" -> 13
    [] s = "T1001" -> 5
    [] s = "Tool" -> 4
    [] s = "SAFE-T1001: Tool Poisoning Attack" -> 33
    [] s = "Found SAFE-T1102 here" -> 21
    [] s = "VULN-" -> 5
    [] OTHER -> 1

\* value.length
StrLen(v) ==
  Chars(v.pre) + Chars(v.s) + (IF v.n < 0 THEN 0 ELSE IF v.n > 9 THEN 2 ELSE 1)

\* value.substring(0, max)
Substring(v, max) == [v EXCEPT !.cut = max]

\* null, where a number is expected
Null == -1

\* the least index of a set of indices, 0 for the empty set: where the
\* leftmost match of a regex is
First(S) == IF S = {} THEN 0 ELSE CHOOSE i \in S : \A j \in S : i <= j

\* scoreRegexes: the phrase forms each of the seven regexes matches
ScoreRegexes ==
  << {"p1"}, {"p2"}, {"p3"}, {"p4"}, {"p5"}, {"p6", "p7"}, {"p7"} >>

\* auditText.match(regex) for the k-th regex: the line of the leftmost match
ScoreMatch(text, k) ==
  First({ i \in 1..Len(text) : text[i].k = "score" /\ text[i].a \in ScoreRegexes[k] })

\* the k-th regex matches and its number is within 0..100
ScoreValid(text, k) ==
  /\ ScoreMatch(text, k) # 0
  /\ text[ScoreMatch(text, k)].n >= 0 /\ text[ScoreMatch(text, k)].n <= 100

\* extractScore without the range test on the number
extractScoreNoRange(text) ==
  IF text = <<>> THEN 100
  ELSE IF \E k \in 1..Len(ScoreRegexes) : ScoreMatch(text, k) # 0
  THEN LET k == CHOOSE k \in 1..Len(ScoreRegexes) :
                  /\ ScoreMatch(text, k) # 0
                  /\ \A j \in 1..(k - 1) : ScoreMatch(text, j) = 0
       IN text[ScoreMatch(text, k)].n
  ELSE Null

\* extractScore: the number of the first regex, in list order, whose leftmost
\* match is within 0..100
extractScore(text) ==
  IF text = <<>> THEN 100
  ELSE IF \E k \in 1..Len(ScoreRegexes) : ScoreValid(text, k)
  THEN LET k == CHOOSE k \in 1..Len(ScoreRegexes) :
                  ScoreValid(text, k) /\ \A j \in 1..(k - 1) : ~ScoreValid(text, j)
       IN text[ScoreMatch(text, k)].n
  ELSE Null

\* ---- extractVulnerabilities
\* one entry of the array as JSON.parse returns it; "" is a missing field
VulnEntry(t) == [name |-> "Weak Auth - AUTH", type |-> t, cause |-> "c"]

\* JSON.parse(`[${match[1]}]`) for an array line whose body parses
Entries(line) ==
  CASE line.a = "ws" -> <<>>
    [] line.a = "noname" -> << [name |-> "", type |-> "high", cause |-> ""] >>
    [] line.a = "mixed" -> << VulnEntry("medium"), VulnEntry("low") >>
    [] OTHER -> [i \in 1..line.n |-> VulnEntry(line.a)]

\* name.split(" - ")
SplitDash(name) ==
  IF name = "Weak Auth - AUTH" THEN << "Weak Auth", "AUTH" >> ELSE << name >>

\* group.split(" ")
SplitSpace(g) ==
  CASE g = "TPA attack" -> << "TPA", "attack" >>
    [] g = "Tool Poisoning Attack" -> << "Tool", "Poisoning", "Attack" >>
    [] OTHER -> << g >>

\* a || b on strings
OrElse(a, b) == IF a = "" THEN b ELSE a

\* a finding whose evidence.request is "MCP Server Inspection"
Finding(fid, tag, severity, description, response, explanation) ==
  [ id |-> fid, tag |-> tag, severity |-> severity, description |-> description,
    evidence |-> [ request |-> Str("MCP Server Inspection"),
                   response |-> response, explanation |-> explanation ] ]

\* the severity of an entry type in the Report build of part_000
Severity(type) ==
  IF type \in {"critical", "high"} THEN "HIGH"
  ELSE IF type = "medium" THEN "MED" ELSE "LOW"

\* vulns.map(...) in the Report build of part_000
MapVulns(vulns) ==
  [ i \in 1..Len(vulns) |->
      LET safeName == OrElse(vulns[i].name, "Unknown Vulnerability")
          safeType == OrElse(vulns[i].type, "unknown")
          safeCause == OrElse(vulns[i].cause, "No description available")
          parts == SplitDash(safeName)
      IN Finding(Numbered("audit-", i - 1),
                 Str(IF Len(parts) >= 2 THEN OrElse(parts[2], "AUDIT") ELSE "AUDIT"),
                 Severity(safeType), Str(safeCause), Str(safeName), Str(safeCause)) ]

\* textPatterns: the callout forms each of the seven regexes matches
TextPatterns ==
  << {"k1"}, {"k2"}, {"k3"}, {"k4"}, {"k5"}, {"k6"}, {"k5", "k7"} >>

\* match[1] of the p-th regex on a callout of form a
Group1(p, a) ==
  CASE a = "k1" -> "Tool Poisoning"
    [] a = "k2" -> "SQL Injection"
    [] a = "k3" -> "exposed shell"
    [] a = "k4" -> "T1001"
    [] a = "k5" -> IF p = 5 THEN "T1001" ELSE "SAFE-T1001: Tool Poisoning Attack"
    [] a = "k6" -> "Tool Poisoning"
    [] a = "k7" -> "Found SAFE-T1102 here"

\* match[2] of the p-th regex on a callout of form a; "" when the regex has
\* no second group
Group2(p, a) ==
  CASE a = "k1" -> "TPA attack"
    [] a = "k5" -> IF p = 5 THEN "Tool Poisoning Attack" ELSE ""
    [] a = "k6" -> "TPA"
    [] OTHER -> ""

\* a regex object with the g flag carries lastIndex, the place its next
\* search starts from; here the number of lines before that place
NoCalls == [p \in 1..Len(TextPatterns) |-> 0]

\* the regexes of a call when its literals stand outside the function: each
\* keeps the lastIndex an earlier call left
LastIndexKept(left) == left

\* const textPatterns = [...]: the seven literals are evaluated inside the
\* call, so each regex object is new and its lastIndex is 0 whatever an
\* earlier call left
LastIndex(left) == [p \in 1..Len(TextPatterns) |-> 0]

\* auditText.matchAll(pattern) searches a copy of the regex from the
\* lastIndex of the regex on
MatchAllFrom(text, p, from) ==
  SelectSeq(SubSeq(text, from + 1, Len(text)),
            LAMBDA l : l.k = "callout" /\ l.a \in TextPatterns[p])

\* [...auditText.matchAll(pattern)] for the p-th regex: the matched lines
MatchAll(text, p) == MatchAllFrom(text, p, LastIndex(NoCalls)[p])

\* slice that returns the whole list
SliceAll(list, from, to) == list

\* list.slice(from, to)
Slice(list, from, to) == SubSeq(list, from + 1, Min(Len(list), to))

\* MapMatches with the label numbered from 0, as the id is
MapMatchesZeroBased(matches, p) ==
  LET all ==
        [ i \in 1..Len(matches) |->
            LET description == Str(Group1(p, matches[i].a))
                g2 == Group2(p, matches[i].a)
                tag == IF g2 # "" /\ SplitSpace(g2)[1] # ""
                       THEN Str(SplitSpace(g2)[1])
                       ELSE Numbered("VULN-", i - 1)
            IN Finding(Numbered("audit-text-", i - 1),
                       IF StrLen(tag) > 20 THEN Substring(tag, 20) ELSE tag,
                       "HIGH",
                       IF StrLen(description) > 200
                       THEN [Substring(description, 200) EXCEPT !.dots = TRUE]
                       ELSE description,
                       description,
                       Str("Extracted from audit text analysis")) ]
  IN Slice(all, 0, 10)

\* matches.map(...).slice(0, 10)
MapMatches(matches, p) ==
  LET all ==
        [ i \in 1..Len(matches) |->
            LET description == Str(Group1(p, matches[i].a))
                g2 == Group2(p, matches[i].a)
                tag == IF g2 # "" /\ SplitSpace(g2)[1] # ""
                       THEN Str(SplitSpace(g2)[1])
                       ELSE Numbered("VULN-", i)
            IN Finding(Numbered("audit-text-", i - 1),
                       IF StrLen(tag) > 20 THEN Substring(tag, 20) ELSE tag,
                       "HIGH",
                       IF StrLen(description) > 200
                       THEN [Substring(description, 200) EXCEPT !.dots = TRUE]
                       ELSE description,
                       description,
                       Str("Extracted from audit text analysis")) ]
  IN Slice(all, 0, 10)

\* the loop over textPatterns with the regexes at lastIndex li: the first
\* regex with a match gives the findings
TextStrategyFrom(text, li) ==
  IF \E p \in 1..Len(TextPatterns) : MatchAllFrom(text, p, li[p]) # <<>>
  THEN LET p == CHOOSE p \in 1..Len(TextPatterns) :
                  /\ MatchAllFrom(text, p, li[p]) # <<>>
                  /\ \A q \in 1..(p - 1) : MatchAllFrom(text, q, li[q]) = <<>>
       IN MapMatches(MatchAllFrom(text, p, li[p]), p)
  ELSE <<>>

\* the text-pattern strategy: the first regex with a match gives the findings
TextStrategy(text) == TextStrategyFrom(text, LastIndex(NoCalls))

\* auditText.match(vulnRegex): the line of the leftmost array, 0 if none;
\* vulnRegex has no g flag and its search starts at the head of the text
VulnMatch(text) == First({ i \in 1..Len(text) : text[i].k = "array" })

\* a call of extractVulnerabilities of the Report build of part_000 made
\* after earlier calls whose regexes were left at lastIndex left
extractVulnerabilitiesAfter(left, text) ==
  IF text = <<>> THEN <<>>
  ELSE LET m == VulnMatch(text)
       IN IF m # 0 /\ text[m].a \notin {"empty", "bad"}
          THEN MapVulns(Entries(text[m]))
          ELSE TextStrategyFrom(text, LastIndex(left))

\* extractVulnerabilities of the Report build of part_000
extractVulnerabilities(text) == extractVulnerabilitiesAfter(NoCalls, text)

\* the severity of an entry type in the Report build of index.tsx
SeverityIdx(type) ==
  IF type = "critical" THEN "HIGH" ELSE IF type = "high" THEN "MED" ELSE "LOW"

\* extractVulnerabilities of the Report build of index.tsx: v.name.split
\* throws for an entry without a name and the catch returns []
extractVulnerabilitiesIdx(text) ==
  LET m == VulnMatch(text)
  IN IF m = 0 \/ text[m].a \in {"empty", "ws", "bad"} THEN <<>>
     ELSE LET vulns == Entries(text[m])
          IN IF \E i \in 1..Len(vulns) : vulns[i].name = "" THEN <<>>
             ELSE [ i \in 1..Len(vulns) |->
                      LET parts == SplitDash(vulns[i].name)
                      IN Finding(Numbered("audit-", i - 1),
                                 Str(IF Len(parts) >= 2
                                     THEN OrElse(parts[2], "AUDIT") ELSE "AUDIT"),
                                 SeverityIdx(vulns[i].type), Str(vulns[i].cause),
                                 Str(vulns[i].name), Str(vulns[i].cause)) ]

\* ---- the score
\* auditFindings.filter((f) => f.severity === sev).length
Count(findings, sev) ==
  Cardinality({ i \in 1..Len(findings) : findings[i].severity = sev })

Max(a, b) == IF a > b THEN a ELSE b

\* LowerScore with the LOW branch tested before the MED branch
LowerScoreLowFirst(findings) ==
  IF Count(findings, "LOW") > 0 THEN Max(60, 100 - Count(findings, "LOW") * 15)
  ELSE IF Count(findings, "MED") > 0 THEN Max(20, 100 - Count(findings, "MED") * 25)
  ELSE 100

\* the branches for MED and LOW findings, the same in both builds
LowerScore(findings) ==
  IF Count(findings, "MED") > 0 THEN Max(20, 100 - Count(findings, "MED") * 25)
  ELSE IF Count(findings, "LOW") > 0 THEN Max(60, 100 - Count(findings, "LOW") * 15)
  ELSE 100

\* the branch for n HIGH findings in the Report build of part_000
HighScore(n) == Max(5, 15 - n * 5)

\* the branch for n HIGH findings in the Report build of index.tsx
HighScoreIdx(n) == Max(5, 10 - n * 2)

\* score of part_000 with the severity counts consulted before the explicit score
scoreFindingsFirst(text, findings) ==
  LET backendScore == IF text # <<>> THEN extractScore(text) ELSE Null
  IN IF findings # <<>>
     THEN IF Count(findings, "HIGH") > 0 THEN HighScore(Count(findings, "HIGH"))
          ELSE LowerScore(findings)
     ELSE IF backendScore # Null THEN backendScore ELSE 100

\* let score of the Report build of part_000
score(text, findings) ==
  LET backendScore == IF text # <<>> THEN extractScore(text) ELSE Null
  IN IF backendScore # Null THEN backendScore
     ELSE IF findings # <<>>
     THEN IF Count(findings, "HIGH") > 0 THEN HighScore(Count(findings, "HIGH"))
          ELSE LowerScore(findings)
     ELSE 100

\* let score of the Report build of index.tsx
scoreIdx(findings) ==
  IF Count(findings, "HIGH") > 0 THEN HighScoreIdx(Count(findings, "HIGH"))
  ELSE LowerScore(findings)

\* ---- reportData
\* inspectData?.server_info?.server_spec, "" when it is missing
ServerSpec(insp) ==
  IF "server_spec" \in DOMAIN insp THEN insp.server_spec ELSE ""

\* the finding both builds put in place of an empty list
Inspected(insp) ==
  [ id |-> Str("1"), tag |-> Str("INSPECTION"), severity |-> "LOW",
    description |-> Str("MCP server inspection completed successfully"),
    evidence |->
      [ request |-> Str("Inspect API call"),
        response |-> Prefixed("Server: ", OrElse(ServerSpec(insp), "Unknown")),
        explanation |->
          Str("Basic server connectivity and capability enumeration successful.") ] ]

Recommendations ==
  << "Review tool descriptions for malicious content",
     "Implement input validation for all tools",
     "Monitor for prompt injection attempts",
     "Use HTTPS for all MCP communications" >>

\* the reportData literal with the findings list put in as it is
AssembleNoFallback(insp, findings, sc) ==
  [ target |-> OrElse(ServerSpec(insp), "Unknown Target"),
    score |-> sc,
    externalCorroborations |-> 2,
    findings |-> findings,
    recommendations |-> Recommendations ]

\* the reportData literal of both builds
Assemble(insp, findings, sc) ==
  [ target |-> OrElse(ServerSpec(insp), "Unknown Target"),
    score |-> sc,
    externalCorroborations |-> 2,
    findings |-> IF findings # <<>> THEN findings ELSE << Inspected(insp) >>,
    recommendations |-> Recommendations ]

\* const auditFindings of the Report build of part_000
auditFindings(aud) == IF aud # <<>> THEN extractVulnerabilities(aud) ELSE <<>>

\* const reportData of the Report build of part_000, from its state
reportDataOf(insp, aud) ==
  Assemble(insp, auditFindings(aud), score(aud, auditFindings(aud)))

\* const reportData of the Report build of index.tsx, from its state
reportDataIdx(insp, aud) ==
  Assemble(insp, extractVulnerabilitiesIdx(aud),
           scoreIdx(extractVulnerabilitiesIdx(aud)))

\* ------------------------------------------- the Report build on a stored text
\* what the inspection service answers: server_info.server_spec is a URL, is
\* empty, or is missing
InspectResult == [id |-> "X", src |-> 1, server_spec |-> "http://mcp.example"]
InspectResults ==
  { InspectResult, [id |-> "X", src |-> 1, server_spec |-> ""] }

\* an earlier scan has stored an entry for the id; the report route is loaded
InitReport ==
  /\ page = "report"
  /\ id \in Ids
  /\ \E text \in Texts :
       cache = [i \in Ids |-> Entry(InspectResult, text)]
  /\ mounted = "pre"
  /\ out = Quiet /\ loadError = FALSE
  /\ feed = NoFeed
  /\ FreshView

NextReport == MountReport

SpecReport == InitReport /\ [][NextReport]_vars

\* ------------------------------------ the Report build on a text of callouts
\* audit texts whose lines are callouts of the first two regexes
CalloutTexts ==
  SeqUpTo({ Line("callout", "k1", 0), Line("callout", "k2", 0) }, MaxMatches)

InitCallouts ==
  /\ page = "report"
  /\ id \in Ids
  /\ \E text \in CalloutTexts :
       cache = [i \in Ids |-> Entry(InspectResult, text)]
  /\ mounted = "pre"
  /\ out = Quiet /\ loadError = FALSE
  /\ feed = NoFeed
  /\ FreshView

NextCallouts == MountReport

SpecCallouts == InitCallouts /\ [][NextCallouts]_vars

\* ------------------------------------------ a scan, its entry and the report
ReplayLines ==
  { Plain, Line("score", "p7", 40), Line("callout", "k1", 0),
    Line("array", "critical", 1) }

\* performUrlScan is in its read loop and has accumulated a text
InitReplay ==
  /\ page = "run"
  /\ id \in Ids
  /\ cache \in [Ids -> StoredEntries]
  /\ mounted = "pre"
  /\ out = Quiet /\ loadError = FALSE
  /\ feed = NoFeed
  /\ isStreaming = FALSE /\ closureStreaming = FALSE /\ ref = 0
  /\ rpc = [r \in Runs |-> "idle"]
  /\ aborted = [r \in Runs |-> FALSE]
  /\ buffer = [r \in Runs |-> <<>>] /\ chunkCount = [r \in Runs |-> 0]
  /\ navTimer = FALSE
  /\ \E insp \in InspectResults, text \in SeqUpTo(ReplayLines, MaxLines) :
       /\ inspectData = insp /\ auditData = text
       /\ progress = Min(ScanProgressQuerying + ScanProgressStep * Len(text),
                         ScanProgressDone)
       /\ spc = [s \in Scans |-> IF s = 1 THEN "read" ELSE "idle"]
       /\ scanInspect = [s \in Scans |-> IF s = 1 THEN insp ELSE NoData]
       /\ auditText = [s \in Scans |-> IF s = 1 THEN text ELSE <<>>]

NextReplay ==
  \/ \E s \in Scans : ScanDone(s)
  \/ \E s \in Scans : ScanFail(s)
  \/ Navigate("report")
  \/ MountReport

SpecReplay == InitReplay /\ [][NextReplay]_vars

\* ------------------------------------ the RouteComponent build, two report ids
SwitchIds == {"X", "Y"}

\* what localStorage may hold for an id: nothing, a string that is not JSON,
\* or an entry with data of that id
SwitchEntries(i) ==
  StoredEntries
  \cup { Entry(DataOf(i, s), [k \in 1..s |-> DataOf(i, s)]) : s \in Scans }

InitSwitch ==
  /\ page = "route"
  /\ id \in SwitchIds
  /\ cache \in { c \in [SwitchIds -> UNION { SwitchEntries(i) : i \in SwitchIds }] :
                   \A i \in SwitchIds : c[i] \in SwitchEntries(i) }
  /\ mounted = "pre"
  /\ out = Quiet /\ loadError = FALSE
  /\ feed = NoFeed
  /\ FreshView

\* the route parameter changes while the component stays mounted: the render
\* with the new reportId runs the load effect, then the save effect with the
\* state of that render; when the load effect has set state, the next render
\* runs the save effect again
SwitchId(j) ==
  /\ page = "route" /\ mounted = "yes" /\ j # id
  /\ out' = Quiet
  /\ id' = j
  /\ LET stored == cache[j]
         saved == SaveEffect(cache, j, inspectData, auditData)
     IN IF stored.kind = "json"
        THEN /\ inspectData' = stored.inspect
             /\ auditData' = stored.audit
             /\ cache' = SaveEffect(saved, j, stored.inspect, stored.audit)
        ELSE /\ cache' = saved
             /\ UNCHANGED <<inspectData, auditData>>
  /\ UNCHANGED <<page, mounted, progress, routeVars, loadError, scanVars, feed>>

NextSwitch ==
  \/ MountRoute
  \/ \E j \in SwitchIds : SwitchId(j)
  \/ Unmount

SpecSwitch == InitSwitch /\ [][NextSwitch]_vars

\* ================================================================== claims
\* the runs whose request is out and whose signal is not aborted
InFlight == {r \in DOMAIN rpc : rpc[r] \in {"fetch", "read"} /\ ~aborted[r]}
\* no request has gone to the audit backend
NoRequest == \A r \in DOMAIN rpc : rpc[r] = "idle"

\* the step is a pass of the read loop of run r
IsReadChunk(r) == chunkCount'[r] = chunkCount[r] + 1

\* C1: once the first run has processed "complete" (it is still in the read
\* loop, no other run was started and the streaming flag is cleared), no
\* later frame changes inspect data, audit data, progress or the flag
C1_Orig ==
  [][(/\ rpc[1] = "read" /\ rpc[2] = "idle" /\ rpc'[2] = "idle"
      /\ mounted = "yes" /\ ~isStreaming)
     => UNCHANGED <<inspectData, auditData, progress, isStreaming>>]_vars

\* C2: when a run leaves the read loop at end-of-stream and no other run is
\* in flight, the streaming flag is false
C2_Orig ==
  [][\A r \in Runs :
       (/\ rpc[r] = "read" /\ rpc'[r] = "done" /\ out'.exit = "eos"
        /\ mounted = "yes" /\ InFlight' = {})
       => ~isStreaming']_vars

\* C3: progress stays within 0..100 and, while the view is streaming, no pass
\* of the read loop decreases it
C3_Orig ==
  /\ [](progress \in 0..100)
  /\ [][(isStreaming /\ \E r \in Runs : IsReadChunk(r))
        => progress' >= progress]_vars

\* C4: at most one audit request is in flight
C4_Orig == Cardinality(InFlight) <= 1

\* C5: the audit-data list of the run page holds the text of one scan only
C5_Orig ==
  page = "run" =>
    \A i, j \in 1..Len(auditData) : auditData[i].src = auditData[j].src

\* C6: a run whose signal is aborted reads no further chunk; its only step is
\* the cancellation, which raises no failure notice and leaves inspect data,
\* audit data and progress as they are
C6_Thm ==
  [][\A r \in Runs :
       (aborted[r] /\ rpc[r] \in {"fetch", "read"})
       => /\ ~IsReadChunk(r)
          /\ rpc'[r] # rpc[r] =>
               /\ rpc'[r] = "done" /\ out'.exit = "cancelled"
               /\ out'.toast # "error"
               /\ UNCHANGED <<inspectData, auditData, progress>>]_vars
\* a run was cancelled after chunks had been processed, and no notice was raised
C6_Wit == out.exit = "cancelled" /\ out.toast = "none" /\ progress > 0

\* the frames that parse and carry a type the reader acts on
SseExpected(line) ==
  /\ StartsWithData(line) /\ JsonParses(Slice6(line))
  /\ ParsedType(Slice6(line)) \in {"inspect", "audit", "complete"}
NdExpected(line) ==
  /\ TrimNonEmpty(line) /\ JsonParses(line)
  /\ ParsedType(line) = "assistant" /\ FirstItemIsText(line)
\* what a pass of a read loop makes of the lines, apart from the error log
SseEffect(st) == <<st.inspect, st.audit, st.progress, st.streaming, st.toast>>
NdEffect(st) == <<st.text, st.data, st.progress>>

C9_Thm ==
  [][/\ \A r \in Runs :
          (rpc[r] \in {"fetch", "read"} /\ ~aborted[r] /\ rpc'[r] = "done"
           /\ out'.exit \notin {"eos", "noreader"})
          => /\ out'.toast = "error"
             /\ mounted = "yes" => ~isStreaming'
     /\ \A s \in Scans :
          (spc[s] # "failed" /\ spc'[s] = "failed") => out'.toast = "error"]_vars
\* a run has failed while the view was streaming
C9_Wit ==
  /\ page = "route" /\ mounted = "yes" /\ out.exit = "failed"
  /\ out.toast = "error" /\ ~isStreaming

\* extractReportFromAuditData (~/lib/vulnerabilityParser): a report of the text
ExtractReportFromAuditData(aud) == [report |-> aud]
NoReport == [report |-> <<>>]
\* the reportData memo of RouteComponent
ReportData ==
  IF auditData # <<>> THEN ExtractReportFromAuditData(auditData) ELSE NoReport
\* the "No Report Data Found" branch of RouteComponent
NoDataView == ReportData = NoReport /\ ~isStreaming
\* a report is rendered: the Report build always renders one
ReportShown ==
  \/ page = "report" /\ ~loadError
  \/ page = "route" /\ ReportData # NoReport

\* the step mounts a report view for an id whose entry decodes
MountsWithEntry ==
  /\ page \in {"route", "report"} /\ mounted = "pre" /\ mounted' = "yes"
  /\ cache[id].kind = "json"

Resolve(text, findings) ==
  IF extractScore(text) # Null THEN extractScore(text)
  ELSE IF Count(findings, "HIGH") > 0 THEN HighScore(Count(findings, "HIGH"))
  ELSE LowerScore(findings)

\* the report of a pair, passed through extractor, resolver and assembler
Direct(insp, text) ==
  Assemble(insp, extractVulnerabilities(text),
           Resolve(text, extractVulnerabilities(text)))

\* the step mounts the Report build for an id whose entry decodes
ReportMounts ==
  page = "report" /\ mounted = "pre" /\ mounted' = "yes" /\ cache[id].kind = "json"

\* C11: the entry a scan stores at completion is the pair it holds, and the
\* report of the Report build mounted on an entry equals, field for field, the
\* report of the entry's pair passed through extractor, resolver and assembler
C11_Thm ==
  [][/\ \A s \in Scans :
          (spc[s] = "read" /\ spc'[s] = "done")
            => cache'[id] = Entry(scanInspect[s], auditText[s])
     /\ ReportMounts =>
          LET shown == reportDataOf(inspectData', auditData')
              direct == Direct(cache[id].inspect, cache[id].audit)
          IN /\ shown.target = direct.target
             /\ shown.score = direct.score
             /\ shown.findings = direct.findings
             /\ shown.recommendations = direct.recommendations]_vars
\* the Report build has mounted on the entry of a scan with a critical entry
C11_Wit ==
  /\ page = "report" /\ mounted = "yes" /\ cache[id].kind = "json"
  /\ auditData = cache[id].audit /\ Len(auditData) = MaxLines
  /\ reportDataOf(inspectData, auditData).target = "http://mcp.example"
  /\ reportDataOf(inspectData, auditData).findings[1].severity = "HIGH"
  /\ reportDataOf(inspectData, auditData).score = 40

\* C12: every entry of the cache holds inspect and audit data of the id it
\* is stored under
C12_Orig ==
  \A i \in DOMAIN cache :
    cache[i].kind = "json" =>
      /\ cache[i].inspect.id = i
      /\ \A k \in 1..Len(cache[i].audit) : cache[i].audit[k].id = i

\* C13: the score of both Report builds is an integer within 0..100
C13_Thm ==
  /\ reportDataOf(inspectData, auditData).score \in 0..100
  /\ reportDataIdx(inspectData, auditData).score \in 0..100
\* the first regex matched a number beyond 100 and a later one gave the score
C13_Wit ==
  /\ mounted = "yes"
  /\ ScoreMatch(auditData, 1) # 0 /\ ~ScoreValid(auditData, 1)
  /\ reportDataOf(inspectData, auditData).score = 40

\* finding lists to put in the place of the text's own
FindingLists ==
  {<<>>}
  \cup { MapVulns(Entries(l)) : l \in ArrayLines \ {Line("array", "empty", 0),
                                                  Line("array", "bad", 0)} }
  \cup { TextStrategy(<<c>>) : c \in CalloutLines }

\* the regexes, by position, whose leftmost match is a number within 0..100
ValidRegexes(text) == { k \in 1..Len(ScoreRegexes) : ScoreValid(text, k) }

\* C14: when some regex of the list matches a number within 0..100, the
\* score is the number of the first such regex, whatever the findings are
C14_Thm ==
  ValidRegexes(auditData) # {} =>
    LET k == CHOOSE k \in ValidRegexes(auditData) :
               \A j \in ValidRegexes(auditData) : k <= j
        n == auditData[ScoreMatch(auditData, k)].n
    IN /\ reportDataOf(inspectData, auditData).score = n
       /\ \A f \in FindingLists : score(auditData, f) = n
\* two regexes give different numbers and the text has a HIGH finding
C14_Wit ==
  /\ mounted = "yes"
  /\ ScoreValid(auditData, 3) /\ ScoreValid(auditData, 6)
  /\ Count(auditFindings(auditData), "HIGH") > 0
  /\ auditData[1].a = "p6"
  /\ reportDataOf(inspectData, auditData).score = 0

\* the score the text of C15 gives for m MED and l LOW findings
MedLowScore(m, l) ==
  IF m > 0 THEN (IF 100 - 25 * m > 20 THEN 100 - 25 * m ELSE 20)
  ELSE IF l > 0 THEN (IF 100 - 15 * l > 60 THEN 100 - 15 * l ELSE 60)
  ELSE 100

\* C15: without an explicit score and without a HIGH finding the score of
\* both Report builds is max(20, 100 - 25*MED), else max(60, 100 - 15*LOW),
\* else 100 for no findings
C15_Thm ==
  LET f == auditFindings(auditData)
      g == extractVulnerabilitiesIdx(auditData)
  IN /\ (extractScore(auditData) = Null \/ auditData = <<>>) /\ Count(f, "HIGH") = 0
          => /\ reportDataOf(inspectData, auditData).score
                  = MedLowScore(Count(f, "MED"), Count(f, "LOW"))
             /\ (Count(f, "MED") = 0 /\ Count(f, "LOW") = 0) => f = <<>>
     /\ Count(g, "HIGH") = 0
          => reportDataIdx(inspectData, auditData).score
               = MedLowScore(Count(g, "MED"), Count(g, "LOW"))
\* four MED findings and no explicit score: the floor of 20
C15_Wit ==
  /\ mounted = "yes" /\ extractScore(auditData) = Null
  /\ Count(auditFindings(auditData), "MED") = 4
  /\ Count(auditFindings(auditData), "HIGH") = 0
  /\ reportDataOf(inspectData, auditData).score = 20

\* C16: without an explicit score, two Report builds that count the same
\* number n >= 1 of HIGH findings show the same score
C16_Orig ==
  LET f == auditFindings(auditData)
      g == extractVulnerabilitiesIdx(auditData)
  IN (/\ mounted = "yes" /\ extractScore(auditData) = Null
      /\ Count(f, "HIGH") >= 1 /\ Count(g, "HIGH") = Count(f, "HIGH"))
       => reportDataOf(inspectData, auditData).score
            = reportDataIdx(inspectData, auditData).score

\* the text has a callout that some regex of textPatterns matches
HasCallout(text) == \E i \in 1..Len(text) : text[i].k = "callout"

\* C17: an array with at least one entry wins over the callouts, and an array
\* that gives no finding leaves the findings to the text patterns
C17_Orig ==
  LET m == VulnMatch(auditData)
      f == extractVulnerabilities(auditData)
  IN (mounted = "yes" /\ m # 0 /\ HasCallout(auditData)) =>
       /\ (auditData[m].a \notin {"empty", "ws", "bad"})
            => /\ Len(f) = Len(Entries(auditData[m]))
               /\ \A i \in 1..Len(f) : f[i].id.pre = "audit-"
       /\ (auditData[m].a \in {"empty", "ws"})
            => /\ f # <<>>
               /\ \A i \in 1..Len(f) : f[i].id.pre = "audit-text-"

\* C18: when the body of the array is not JSON, the extractor of both Report
\* builds returns the findings of the callouts in the text
C18_Orig ==
  LET m == VulnMatch(auditData)
  IN (mounted = "yes" /\ m # 0 /\ auditData[m].a = "bad" /\ HasCallout(auditData)) =>
       /\ extractVulnerabilities(auditData) # <<>>
       /\ \A i \in 1..Len(extractVulnerabilities(auditData)) :
            extractVulnerabilities(auditData)[i].id.pre = "audit-text-"
       /\ extractVulnerabilitiesIdx(auditData) # <<>>

\* the regex of textPatterns that gives the findings of the text, 0 if none
Winning(text) ==
  IF \E p \in 1..Len(TextPatterns) : MatchAll(text, p) # <<>>
  THEN CHOOSE p \in 1..Len(TextPatterns) :
         MatchAll(text, p) # <<>> /\ \A q \in 1..(p - 1) : MatchAll(text, q) = <<>>
  ELSE 0

\* the text has no array and its winning regex matches exactly two callouts
TwoCallouts(text) ==
  /\ VulnMatch(text) = 0 /\ Winning(text) # 0
  /\ Len(MatchAll(text, Winning(text))) = 2

\* the words of the two groups of a match
MatchWords(p, a) ==
  {Group1(p, a)}
  \cup { SplitSpace(Group1(p, a))[i] : i \in 1..Len(SplitSpace(Group1(p, a))) }
  \cup { SplitSpace(Group2(p, a))[i] : i \in 1..Len(SplitSpace(Group2(p, a))) }

C20_Thm ==
  LET f == auditFindings(auditData)
      g == extractVulnerabilitiesIdx(auditData)
      shown == reportDataOf(inspectData, auditData).findings
      shownIdx == reportDataIdx(inspectData, auditData).findings
  IN /\ shown # <<>> /\ shownIdx # <<>>
     /\ f # <<>> => shown = f
     /\ g # <<>> => shownIdx = g
     /\ f = <<>> => /\ Len(shown) = 1 /\ shown[1].severity = "LOW"
                    /\ shown[1].tag = Str("INSPECTION")
     /\ g = <<>> => /\ Len(shownIdx) = 1 /\ shownIdx[1].severity = "LOW"
                    /\ shownIdx[1].tag = Str("INSPECTION")
\* a text was loaded and the extractor returned no finding
C20_Wit ==
  /\ mounted = "yes" /\ Len(auditData) = MaxLines
  /\ auditFindings(auditData) = <<>>
  /\ reportDataOf(inspectData, auditData).findings[1].tag = Str("INSPECTION")

\* what the regexes of earlier extractions can have been left at: every one
\* after k lines, or one of them after k lines and the others at the head
LeftOvers ==
  { [p \in 1..Len(TextPatterns) |-> k] : k \in 0..MaxLines }
  \cup { [p \in 1..Len(TextPatterns) |-> IF p = q THEN k ELSE 0] :
           q \in 1..Len(TextPatterns), k \in 1..MaxLines }

SeverityOf(type) ==
  CASE type \in {"critical", "high"} -> "HIGH"
    [] type = "medium" -> "MED"
    [] OTHER -> "LOW"

\* C22: at both call sites that map structured entries the severity of a
\* finding is HIGH for the entry types critical and high, MED for medium and
\* LOW for any other or missing type
C22_Orig ==
  LET m == VulnMatch(auditData)
  IN (mounted = "yes" /\ m # 0 /\ auditData[m].a \notin {"empty", "ws", "bad"}) =>
       LET vulns == Entries(auditData[m])
           f == extractVulnerabilities(auditData)
           g == extractVulnerabilitiesIdx(auditData)
       IN /\ Len(f) = Len(vulns)
          /\ \A i \in 1..Len(f) :
               /\ f[i].severity \in {"HIGH", "MED", "LOW"}
               /\ f[i].severity = SeverityOf(vulns[i].type)
          /\ \A i \in 1..Len(g) :
               /\ g[i].severity \in {"HIGH", "MED", "LOW"}
               /\ g[i].severity = SeverityOf(vulns[i].type)

\* C29: a text with no explicit score and n >= 1 HIGH findings gets a score
\* of at least 5 and strictly below 10 in both Report builds
C29_Orig ==
  (mounted = "yes" /\ extractScore(auditData) = Null) =>
    /\ Count(auditFindings(auditData), "HIGH") > 0 =>
         /\ reportDataOf(inspectData, auditData).score >= 5
         /\ reportDataOf(inspectData, auditData).score < 10
    /\ Count(extractVulnerabilitiesIdx(auditData), "HIGH") > 0 =>
         /\ reportDataIdx(inspectData, auditData).score >= 5
         /\ reportDataIdx(inspectData, auditData).score < 10

\* C23: when the stream closes while the buffer holds a partial line that is
\* not empty, the line is processed as a last frame: the view has what the
\* loop body makes of the line, and a frame that does not parse is logged
C23_Orig ==
  [][\A r \in DOMAIN rpc :
       (/\ rpc[r] = "read" /\ rpc'[r] = "done" /\ out'.exit = "eos"
        /\ mounted = "yes" /\ buffer[r] # <<>>)
         => LET st0 == [inspect |-> inspectData, audit |-> auditData,
                        progress |-> progress, streaming |-> isStreaming,
                        toast |-> "none", err |-> FALSE, brk |-> FALSE]
                st == SseLine(st0, buffer[r], id)
            IN /\ inspectData' = st.inspect
               /\ auditData' = st.audit
               /\ progress' = st.progress
               /\ isStreaming' = st.streaming
               /\ out'.err = st.err]_vars

\* C24: while a scan reads assistant texts and no scan has seen the end of
\* its stream, progress is strictly below 100
C24_Orig ==
  (/\ page = "run"
   /\ \E s \in Scans : spc[s] = "read"
   /\ \A s \in Scans : spc[s] # "done")
    => progress < ScanProgressDone

\* the number of text items in the content list of the record on a line
TextItems(line) ==
  IF TrimNonEmpty(line) /\ JsonParses(line) /\ ParsedType(line) = "assistant"
  THEN Len(SelectSeq(Content(line), LAMBDA ty : ty = "text"))
  ELSE 0

RECURSIVE AllTextItems(_)
\* the number of text items in the records of the lines
AllTextItems(lines) ==
  IF lines = <<>> THEN 0
  ELSE TextItems(Head(lines)) + AllTextItems(Tail(lines))

\* C25: an assistant record adds to the audit text the text of each of its
\* text items, in order, and nothing for its other items, wherever the text
\* items stand in the content list
C25_Orig ==
  \A s \in Scans, c \in ScanChunks :
    (page = "run" /\ spc[s] = "read") =>
      LET st0 == [text |-> auditText[s], data |-> auditData,
                  progress |-> progress, err |-> FALSE]
          st == NdLines(st0, SplitLines(c), DataOf(id, s))
      IN st.text = auditText[s]
                     \o [k \in 1..AllTextItems(SplitLines(c)) |-> DataOf(id, s)]

\* C26: for a text with no array the findings come from the first regex of
\* the list with a match, and from no later one: they are its first ten
\* matches, or all of them when there are fewer, in the order of the text
C26_Thm ==
  (mounted = "yes" /\ VulnMatch(auditData) = 0 /\ Winning(auditData) # 0) =>
    LET p == Winning(auditData)
        ms == MatchAll(auditData, p)
        f == extractVulnerabilities(auditData)
    IN /\ Len(f) <= 10
       /\ Len(f) = Min(Len(ms), 10)
       /\ \A i \in 1..Len(f) :
            /\ f[i].id = Numbered("audit-text-", i - 1)
            /\ f[i].evidence.response = Str(Group1(p, ms[i].a))
\* the first regex of the list matches eleven callouts of the loaded text
C26_Wit ==
  /\ mounted = "yes" /\ Winning(auditData) = 1
  /\ Len(MatchAll(auditData, 1)) = 11
  /\ Len(extractVulnerabilities(auditData)) = 10

\* the step mounts a report view for an id with no entry or with an entry
\* that does not decode
MountsWithoutEntry ==
  /\ page \in {"route", "report"} /\ mounted = "pre" /\ mounted' = "yes"
  /\ cache[id].kind \in {"none", "garbage"}

\* C27: a mount that finds no entry, or one that does not decode, ends in
\* the no-data state: no exception leaves the load step, no failure notice
\* is raised and no report is shown
C27_Orig ==
  [][MountsWithoutEntry =>
       /\ ~loadError'
       /\ out'.toast = "none"
       /\ ~ReportShown'
       /\ inspectData' = NoData /\ auditData' = <<>>]_vars

\* C28: on the run page the cache changes only in the step in which a scan
\* whose inspection succeeded sees the end of its audit stream, and then the
\* entry of the id becomes the pair the scan holds; the navigation is
\* scheduled in no other step and fires only when the entry is stored; a
\* step in which a scan fails changes neither the cache nor the schedule
C28_Thm ==
  [][page = "run" =>
       /\ cache' # cache =>
            \E s \in Scans :
              /\ spc[s] = "read" /\ spc'[s] = "done"
              /\ scanInspect[s] # NoData
              /\ cache' = [cache EXCEPT ![id] = Entry(scanInspect[s], auditText[s])]
       /\ (navTimer' /\ ~navTimer) =>
            \E s \in Scans :
              /\ spc[s] = "read" /\ spc'[s] = "done"
              /\ cache'[id] = Entry(scanInspect[s], auditText[s])
       /\ page' # "run" => (navTimer /\ cache[id].kind = "json")
       /\ \A s \in Scans :
            (spc[s] # "failed" /\ spc'[s] = "failed")
              => (cache' = cache /\ navTimer' = navTimer)]_vars
\* a scan has stored its pair over the entry of an earlier scan and has
\* scheduled the navigation
C28_Wit ==
  /\ page = "run" /\ spc[1] = "done" /\ navTimer
  /\ cache[id].kind = "json" /\ cache[id].inspect = DataOf(id, 1)
  /\ Len(cache[id].audit) >= 2 /\ cache[id] # EarlierEntry

\* C30: while a run of startStreaming waits for its request or reads its
\* stream, the abort-controller ref holds the controller of that run
C30_Orig ==
  (page = "route" /\ mounted = "yes") =>
    \A r \in DOMAIN rpc : (rpc[r] \in {"fetch", "read"} /\ ~aborted[r]) => ref = r

\* C7: when the whole payload has been fed, each reader has produced the
\* frames it produces when the payload arrives as one chunk
C7_Orig ==
  feed.rest = <<>> =>
    /\ feed.sse = SseFrames(Front(SplitLines(feed.whole)))
    /\ feed.nd = NdFrames(SplitLines(feed.whole))

TypeOK ==
  /\ page \in {"run", "route", "report"}
  /\ mounted \in {"pre", "yes", "gone"}
  /\ progress \in 0..100
  /\ ref \in 0..MaxRuns
====
